---- MODULE Spec2Model ----
(***************************************************************************)
(* Model of the long polling client of package longpoll                    *)
(* (src/longpoll/longpoll.go): Client.Poll, Client.pollLoop,               *)
(* Client.makeRequest, Client.StopAll and Client.ActiveCount.              *)
(*                                                                         *)
(* One client is shared by the sessions of Sessions.  A session is one     *)
(* call of Poll; its position in Poll/pollLoop is pc[s].  The transport,   *)
(* the handler, the retry timer and the callers' contexts are the          *)
(* environment: their outcomes are chosen nondeterministically.            *)
(***************************************************************************)
EXTENDS Integers, FiniteSets, Sequences, TLC

\* ---------------------------------------------------------------- bounds
MaxN == 2
    \* largest Config.MaxRetries value a client is constructed with
MaxAttempts == 6
    \* exchanges one session may issue before the model stops it issuing more
NumSessions == 3
    \* Poll calls made on the one client
GroupAttempts == 3
    \* exchanges the sessions may issue in all when they run concurrently
ScriptLen == 3
    \* exchanges whose outcome a script fixes
MaxLimit == 2
    \* largest ThrottleConfig.Limit
NumRequests == 3
    \* HTTP requests that may be inside the throttle middleware at once
MaxMaxAttempts == 3
    \* largest Strategy.MaxAttempts
MaxStack == 3
    \* longest middleware stack of the router group
ExchangeAttempts == 3
    \* calls of makeRequest of the session whose exchanges are looked into

TestMaxRetries == 2
    \* Config.MaxRetries of TestClient_Poll_MaxRetries

StatusTooManyRequests == 429
    \* http.StatusTooManyRequests, the status of a throttled request
DefaultInitialDelay == 100
    \* retry.DefaultStrategy: InitialDelay, in milliseconds
DefaultMaxDelay == 10000
    \* retry.DefaultStrategy: MaxDelay, in milliseconds
DefaultMultiplier == 2
    \* retry.DefaultStrategy: Multiplier
DefaultPollTimeout == 60
    \* NewWithConfig: the PollTimeout that replaces 0, in seconds

Sessions == 1..NumSessions
MaxRetriesInputs == (-1)..MaxN
InitialURL == "u0"
NextURLs == {"", "u1", "u2"}

\* ---------------------------------------------------------------- state
VARIABLES
    MaxRetriesInput,  \* cfg.MaxRetries as passed to NewWithConfig
    MaxRetries,       \* c.config.MaxRetries
    active,           \* c.active: the registered pollContexts
    pc,               \* position of each Poll call
    done,             \* pollCtx.Done() is closed
    retries,          \* pollLoop's retries
    currentURL,       \* pollLoop's currentURL
    timerFired,       \* the time.After channel of the retry delay is ready
    result,           \* what Poll returned ("pending" until it returns)
    \* ---- history of each session, kept to state the properties
    attempts,         \* exchanges issued (calls of makeRequest)
    failures,         \* failed exchanges since the last successful one
    delays,           \* retry delays started
    handlerCalls,     \* invocations of the handler
    lastHandler,      \* what the handler returned last
    requestURL,       \* address of the exchange issued last
    directed,         \* address the handler's returns call for
    firedAt,          \* who fired the cancellation signal first and, for the
                      \* caller's context, the pc of the session at that moment
    aborted,          \* the transport aborted the last exchange because of
                      \* the cancellation signal
    bodyOpen,         \* the session holds a response body it has not closed
    script,           \* endpoint and handler behaviour replayed to the sessions
                      \* that are compared (empty: the behaviour is free)
    request,          \* the client's request settings (BodyBuilder set,
                      \* cfg.PollTimeout, httpClient.Timeout) and what
                      \* makeRequest did in its last call for each session
    locking,          \* c.mu and the goroutines that use the client at the
                      \* grain of its Lock/RLock calls
    \* ---- the other packages
    throttle,         \* middleware.GlobalThrottle: one middleware instance
    retryDo,          \* retry.Do: one call
    group             \* router.Group: one group

vars == <<MaxRetriesInput, MaxRetries, active, pc, done, retries, currentURL,
          timerFired, result, attempts, failures, delays, handlerCalls,
          lastHandler, requestURL, directed, firedAt, aborted, bodyOpen,
          script, request, locking, throttle, retryDo, group>>

\* The state of the long polling client and of its sessions.
longpoll == <<MaxRetriesInput, MaxRetries, active, pc, done, retries, currentURL,
              timerFired, result, attempts, failures, delays, handlerCalls,
              lastHandler, requestURL, directed, firedAt, aborted, bodyOpen,
              script, request, locking>>

\* The state of the other packages.
libs == <<throttle, retryDo, group>>

hist == <<attempts, failures, delays, handlerCalls, lastHandler, requestURL,
          directed, aborted>>

NotFired == [by |-> "none", at |-> "none"]
NoHandler == [called |-> FALSE, nextURL |-> "", shouldContinue |-> FALSE, err |-> FALSE]

\* ---------------------------------------------------------------- code
\* NewWithConfig: a zero MaxRetries is replaced by -1 (unlimited).
NewWithConfigKeepsZero(n) == n
NewWithConfig(n) == IF n = 0 THEN -1 ELSE n

\* pollLoop, the test that ends the session on a failed exchange.
RetriesExhaustedOffByOne(m, r) == m >= 0 /\ r > m
RetriesExhaustedEarly(m, r) == m >= 0 /\ r + 1 >= m
RetriesExhaustedAfterOne(m, r) == m >= 0 /\ r >= 1
RetriesExhaustedNever(m, r) == FALSE
RetriesExhausted(m, r) == m >= 0 /\ r >= m

\* pollLoop, the non-blocking selects on ctx.Done() at the top and at the
\* bottom of the loop: does the loop return ctx.Err() there?
CheckpointSkipped(isDone) == FALSE
CheckpointInverted(isDone) == ~isDone
Checkpoint(isDone) == isDone

\* pollLoop, retries after a successful exchange.
RetriesKept(r) == r
RetriesAfterSuccess(r) == 0

\* pollLoop, the address of the next attempt after the handler returned.
NextURLIgnored(cur, next) == cur
NextURLReverts(cur, next) == IF next # "" THEN next ELSE InitialURL
NextURL(cur, next) == IF next # "" THEN next ELSE cur

\* pollLoop, what the loop does with the handler's return values.
HandlerDirectiveBoolFirst(shouldContinue, err) ==
    IF ~shouldContinue THEN "stop" ELSE IF err THEN "error" ELSE "continue"
HandlerDirectiveInverted(shouldContinue, err) ==
    IF err THEN "error" ELSE IF shouldContinue THEN "stop" ELSE "continue"
HandlerDirective(shouldContinue, err) ==
    IF err THEN "error" ELSE IF ~shouldContinue THEN "stop" ELSE "continue"

\* pollLoop, the select of the retry delay: the cases that are ready.
SleepReadyTimerOnly(isDone, fired) ==
    IF fired THEN {"timer"} ELSE {}
SleepReady(isDone, fired) ==
    (IF isDone THEN {"done"} ELSE {}) \cup (IF fired THEN {"timer"} ELSE {})

\* pollLoop, resp.Body.Close() after the handler returned: is the body still
\* open afterwards?
BodyLeakOnError(directive, open) == open /\ directive = "error"
BodyLeakOnContinue(directive, open) == open /\ directive = "continue"
BodyAfterHandler(directive, open) == FALSE

\* makeRequest, io.ReadAll and resp.Body.Close() on a status outside [200,300).
BodyAfterNonSuccess(open) == FALSE

\* Poll, the deferred delete(c.active, pc).
DeregisterForgotten(a, s) == a
DeregisterEveryone(a, s) == {}
Deregister(a, s) == a \ {s}

\* Poll, c.active[pc] = struct{}{}.
Register(a, s) == a \cup {s}

\* StopAll, the pollContexts whose cancel is called.
StopAllTargetsEveryone(a) == Sessions
StopAllTargetsNone(a) == {}
StopAllTargetsOne(a) == IF a = {} THEN {} ELSE {CHOOSE s \in a : \A t \in a : s <= t}
StopAllTargets(a) == a

\* PollSimple, the ResponseHandler it passes to Poll: what it returns when the
\* SimpleResponseHandler returned (shouldContinue, err).
PollSimpleDropsError(shouldContinue, err) ==
    [nextURL |-> "", shouldContinue |-> shouldContinue, err |-> FALSE]
PollSimpleHandler(shouldContinue, err) ==
    [nextURL |-> "", shouldContinue |-> shouldContinue, err |-> err]

\* ActiveCount.
ActiveCount == Cardinality(active)

\* ---------------------------------------------------------------- middleware
\* GlobalThrottleWithConfig: the middleware built for cfg.Limit = limit; ch is
\* len(ch) of its semaphore channel, and each request is idle (not arrived),
\* in the wrapped handler of a route, or finished with a status.
Requests == 1..NumRequests
Routes == {"/a", "/b"}
ThrottleLimits == 0..MaxLimit

GlobalThrottle(limit) ==
    [Limit |-> limit,
     ch |-> 0,
     pc |-> [r \in Requests |-> "idle"],
     route |-> [r \in Requests |-> ""],
     status |-> [r \in Requests |-> 0]]

\* The select of the middleware: can ch <- struct{}{} proceed?
SlotFreeOffByOne(len, limit) == len <= limit
SlotFree(len, limit) == len < limit

\* The deferred <-ch of a request that acquired a slot.
ReleaseSlot(len) == len - 1

\* A request for route is served by the middleware: with Limit <= 0 the
\* handler itself, else the select (acquire a slot and call the handler, or
\* answer 429).
ThrottleServe(r, route) ==
    /\ throttle.pc[r] = "idle"
    /\ IF throttle.Limit <= 0
         THEN throttle' = [throttle EXCEPT !.pc[r] = "handler", !.route[r] = route]
         ELSE IF SlotFree(throttle.ch, throttle.Limit)
           THEN throttle' = [throttle EXCEPT !.ch = @ + 1, !.pc[r] = "handler",
                                             !.route[r] = route]
           ELSE throttle' = [throttle EXCEPT !.pc[r] = "finished", !.route[r] = route,
                                             !.status[r] = StatusTooManyRequests]
    /\ UNCHANGED <<longpoll, retryDo, group>>

\* The wrapped handler returns or panics; the deferred function releases the
\* slot in both cases.
ThrottleHandlerEnds(r, panics) ==
    /\ throttle.pc[r] = "handler"
    /\ throttle' = [throttle EXCEPT
           !.ch = IF throttle.Limit <= 0 THEN @ ELSE ReleaseSlot(@),
           !.pc[r] = IF panics THEN "panicked" ELSE "finished",
           !.status[r] = 0]
    /\ UNCHANGED <<longpoll, retryDo, group>>

\* The next request arrives in place of a finished one.
ThrottleNextRequest(r) ==
    /\ throttle.pc[r] \in {"finished", "panicked"}
    /\ throttle' = [throttle EXCEPT !.pc[r] = "idle", !.route[r] = "", !.status[r] = 0]
    /\ UNCHANGED <<longpoll, retryDo, group>>

\* ---------------------------------------------------------------- retry
\* Do(ctx, strategy, fn) at its entry, for a strategy with the delays of
\* DefaultStrategy: attempt, delay and lastErr are Do's locals (lastErr is the
\* number of the invocation of fn that returned it, 0 for nil), done is
\* ctx.Done(); outcomes (what each invocation of fn returned) and sleeps (the
\* delays started) are history.
RetryDo(maxAttempts, jitter) ==
    [MaxAttempts |-> maxAttempts,
     Jitter |-> jitter,
     pc |-> "loop",
     attempt |-> 0,
     delay |-> DefaultInitialDelay,
     lastErr |-> 0,
     done |-> FALSE,
     result |-> [kind |-> "pending", err |-> 0],
     outcomes |-> << >>,
     sleeps |-> 0]

\* Strategy.MaxAttempts is an int that Do does not validate.
StrategyMaxAttempts == (-1)..MaxMaxAttempts

FnOutcomes == {"nil", "retryable", "fatal"}

Min(a, b) == IF a < b THEN a ELSE b

\* calculateDelay; rand.Float64() is 0 or 1/2.
calculateDelay(delay, jitter, half) ==
    LET calculatedDelay == Min(delay * DefaultMultiplier, DefaultMaxDelay)
    IN  IF jitter /\ half THEN calculatedDelay + calculatedDelay \div 20
                          ELSE calculatedDelay

\* Do, "don't sleep after the last attempt".
SleepAfterEveryAttempt(attempt, maxAttempts) == attempt < maxAttempts
SleepBeforeNext(attempt, maxAttempts) == attempt < maxAttempts - 1

\* ctx is cancelled.
RetryCancel ==
    /\ retryDo.pc # "returned"
    /\ ~retryDo.done
    /\ retryDo' = [retryDo EXCEPT !.done = TRUE]
    /\ UNCHANGED <<longpoll, throttle, group>>

\* Do, the loop condition fails: the max-attempts error wrapping lastErr.
RetryExhausted ==
    /\ retryDo.pc = "loop"
    /\ ~(retryDo.attempt < retryDo.MaxAttempts)
    /\ retryDo' = [retryDo EXCEPT !.pc = "returned",
                      !.result = [kind |-> "maxAttempts", err |-> retryDo.lastErr]]
    /\ UNCHANGED <<longpoll, throttle, group>>

\* Do, the select at the top of the loop body, then fn is called.
RetryAttempt ==
    /\ retryDo.pc = "loop"
    /\ retryDo.attempt < retryDo.MaxAttempts
    /\ IF retryDo.done
         THEN retryDo' = [retryDo EXCEPT !.pc = "returned",
                             !.result = [kind |-> "ctxErr", err |-> 0]]
         ELSE retryDo' = [retryDo EXCEPT !.pc = "fn"]
    /\ UNCHANGED <<longpoll, throttle, group>>

\* fn returns, and Do returns, starts the delay or goes to the next attempt.
RetryFnReturns(outcome, half) ==
    /\ retryDo.pc = "fn"
    /\ LET n == Len(retryDo.outcomes) + 1
           rec == [retryDo EXCEPT !.outcomes = Append(@, outcome)]
       IN  IF outcome = "nil"
             THEN retryDo' = [rec EXCEPT !.pc = "returned",
                                 !.result = [kind |-> "nil", err |-> 0]]
             ELSE IF outcome = "fatal"
               THEN retryDo' = [rec EXCEPT !.pc = "returned", !.lastErr = n,
                                   !.result = [kind |-> "err", err |-> n]]
               ELSE IF SleepBeforeNext(retryDo.attempt, retryDo.MaxAttempts)
                 THEN retryDo' = [rec EXCEPT !.pc = "sleep", !.lastErr = n,
                                     !.sleeps = @ + 1,
                                     !.delay = calculateDelay(@, retryDo.Jitter, half)]
                 ELSE /\ ~half
                      /\ retryDo' = [rec EXCEPT !.pc = "loop", !.lastErr = n,
                                        !.attempt = @ + 1]
    /\ UNCHANGED <<longpoll, throttle, group>>

\* Do, the select of the delay: ctx.Done() or the timer.
RetrySleepEnds(cancelled) ==
    /\ retryDo.pc = "sleep"
    /\ cancelled => retryDo.done
    /\ IF cancelled
         THEN retryDo' = [retryDo EXCEPT !.pc = "returned",
                             !.result = [kind |-> "ctxErr", err |-> 0]]
         ELSE retryDo' = [retryDo EXCEPT !.pc = "loop", !.attempt = @ + 1]
    /\ UNCHANGED <<longpoll, throttle, group>>

\* --------------------------------------------------------------- router
Middlewares == {"mwA", "mwB"}

\* The arguments of Use(mw, more...): one middleware or two, in order.
UseArgs == {<<m>> : m \in Middlewares} \cup {<<m, n>> : m \in Middlewares, n \in Middlewares}

\* The five registration methods of Group.
RouteMethods == {"Handle", "HandleFunc", "HandleFiles", "HandleRoot", "HandleRootFunc"}

\* New(mux): no middleware, no route, not locked. routes (the methods that
\* registered a route) and used (the last call of Use: its arguments, the
\* stack and the routes it found, whether it panicked) are history.
NoUse == [mws |-> << >>, before |-> << >>, routes |-> {}, panicked |-> FALSE]

New == [routesLocked |-> FALSE, middlewares |-> << >>, routes |-> {}, used |-> NoUse]

\* lockRoot.
lockRootForgotten(g) == g
lockRoot(g) == [g EXCEPT !.routesLocked = TRUE]

\* Use, the two appends.
UseAppends(stack, mws) == stack \o mws

\* g.Use(mw, more...): panics on a locked group, else appends.
GroupUse(mws) ==
    /\ group.routesLocked \/ Len(group.middlewares) + Len(mws) <= MaxStack
    /\ LET call == [mws |-> mws, before |-> group.middlewares,
                    routes |-> group.routes, panicked |-> group.routesLocked]
       IN  IF group.routesLocked
             THEN group' = [group EXCEPT !.used = call]
             ELSE group' = [group EXCEPT !.used = call,
                               !.middlewares = UseAppends(@, mws)]
    /\ UNCHANGED <<longpoll, throttle, retryDo>>

\* g.Handle, g.HandleFunc (through register), g.HandleFiles, g.HandleRoot,
\* g.HandleRootFunc: lock the group, then register the route on the mux.
GroupHandle(method) ==
    /\ group' = [lockRoot(group) EXCEPT !.routes = @ \cup {method}]
    /\ group' # group
    /\ UNCHANGED <<longpoll, throttle, retryDo>>

\* The other packages while only the long polling client is exercised.
ThrottleUnused == GlobalThrottle(0)
RetryUnused == RetryDo(0, FALSE)
GroupUnused == New

\* ---------------------------------------------------------------- makeRequest
\* Config.PollTimeout and Config.HTTPClient as passed to NewWithConfig, in
\* seconds: no client, a client without Timeout, a client with its own Timeout.
PollTimeoutInputs == {0, 2}
HTTPClientInputs ==
    {[isNil |-> TRUE, Timeout |-> 0], [isNil |-> FALSE, Timeout |-> 0],
     [isNil |-> FALSE, Timeout |-> 5]}

\* NewWithConfig, cfg.PollTimeout.
PollTimeoutOf(pollTimeout) == IF pollTimeout = 0 THEN DefaultPollTimeout ELSE pollTimeout

\* NewWithConfig, the Timeout of c.httpClient.
ClientTimeout(client, pollTimeout) ==
    IF client.isNil THEN PollTimeoutOf(pollTimeout)
    ELSE IF client.Timeout = 0 THEN PollTimeoutOf(pollTimeout)
    ELSE client.Timeout

\* What the environment does to one call of makeRequest: the body builder
\* fails, the request cannot be created, the connection fails, the transport
\* gives up because ctx is done, or the endpoint answers with a status after
\* a number of seconds.
StatusCodes == {199, 200, 299, 300, 404, 500}
ResponseTimes == {1, 3, 61}
Faults == {"body", "create", "net", "abort"}
Outcomes ==
    {[fault |-> f, elapsed |-> 0, status |-> 0] : f \in Faults}
    \cup {[fault |-> "none", elapsed |-> e, status |-> c] : e \in ResponseTimes, c \in StatusCodes}

\* makeRequest, the test of resp.StatusCode.
NonSuccessFrom400(status) == status >= 400
NonSuccess(status) == status < 200 \/ status >= 300

\* c.httpClient.Do, Client.Timeout: 0 means no timeout.
TimedOutNever(elapsed, timeout) == FALSE
TimedOut(elapsed, timeout) == timeout > 0 /\ elapsed >= timeout

\* makeRequest, the error of c.config.BodyBuilder(): is the request given up?
BodyErrorIgnored(bodyBuilder, fault) == FALSE
BodyError(bodyBuilder, fault) == bodyBuilder /\ fault = "body"

\* makeRequest: what it returns (err), why (kind), whether it called the
\* body builder (built) and c.httpClient.Do (sent).
makeRequest(bodyBuilder, timeout, o) ==
    IF BodyError(bodyBuilder, o.fault)
      THEN [err |-> TRUE, kind |-> "build", built |-> bodyBuilder, sent |-> FALSE]
    ELSE IF o.fault = "create"
      THEN [err |-> TRUE, kind |-> "create", built |-> bodyBuilder, sent |-> FALSE]
    ELSE IF o.fault \in {"body", "net"}
      THEN [err |-> TRUE, kind |-> "http", built |-> bodyBuilder, sent |-> TRUE]
    ELSE IF o.fault = "abort"
      THEN [err |-> TRUE, kind |-> "abort", built |-> bodyBuilder, sent |-> TRUE]
    ELSE IF TimedOut(o.elapsed, timeout)
      THEN [err |-> TRUE, kind |-> "timeout", built |-> bodyBuilder, sent |-> TRUE]
    ELSE IF NonSuccess(o.status)
      THEN [err |-> TRUE, kind |-> "status", built |-> bodyBuilder, sent |-> TRUE]
    ELSE [err |-> FALSE, kind |-> "response", built |-> bodyBuilder, sent |-> TRUE]

\* The request settings of a client and, for each session, the call of
\* makeRequest made last: n is the number of the attempt, o what the
\* environment did, ret what makeRequest returned; builds and sends count
\* the calls of the body builder and of c.httpClient.Do.
NotMade == [n |-> 0, o |-> [fault |-> "none", elapsed |-> 0, status |-> 0],
            ret |-> [err |-> FALSE, kind |-> "none", built |-> FALSE, sent |-> FALSE],
            builds |-> 0, sends |-> 0]

ClientRequests(bodyBuilder, pollTimeout, client) ==
    [BodyBuilder |-> bodyBuilder,
     PollTimeout |-> PollTimeoutOf(pollTimeout),
     Timeout |-> ClientTimeout(client, pollTimeout),
     made |-> [s \in Sessions |-> NotMade]]

\* New(): no body builder, no client given, the default PollTimeout.
DefaultRequests == ClientRequests(FALSE, 0, [isNil |-> TRUE, Timeout |-> 0])

\* ---------------------------------------------------------------- c.mu
\* The goroutines that use one client: two that call Poll, one that calls
\* StopAll, one that calls ActiveCount and one that calls the With methods.
Pollers == {"poll1", "poll2"}
Goroutines == Pollers \cup {"stopAll", "activeCount", "with"}
WithMethods == {"WithHeader", "WithHeaders", "WithLogger", "WithMethod", "WithBodyBuilder"}

\* The accesses to the client's shared fields: the registration and the
\* deregistration of Poll, the reads of makeRequest and pollLoop, StopAll,
\* ActiveCount and the With methods.
PollOps == {"register", "BodyBuilder", "Method", "headers", "logger", "deregister"}
Ops == PollOps \cup {"StopAll", "ActiveCount"} \cup WithMethods

\* The field an access touches and whether it writes it.
FieldOf(op) ==
    CASE op \in {"register", "deregister", "StopAll", "ActiveCount"} -> "active"
      [] op \in {"headers", "WithHeader", "WithHeaders"} -> "headers"
      [] op \in {"logger", "WithLogger"} -> "logger"
      [] op \in {"Method", "WithMethod"} -> "config.Method"
      [] op \in {"BodyBuilder", "WithBodyBuilder"} -> "config.BodyBuilder"

Writes(op) == op \in {"register", "deregister"} \cup WithMethods

\* How the code takes c.mu around an access: Lock ("W"), RLock ("R") or not at
\* all ("none").
LockForUnlockedDelete(op) ==
    CASE op \in {"register", "StopAll"} \cup WithMethods -> "W"
      [] op \in {"ActiveCount", "headers"} -> "R"
      [] OTHER -> "none"
LockFor(op) ==
    CASE op \in {"register", "deregister", "StopAll"} \cup WithMethods -> "W"
      [] op \in {"ActiveCount", "headers"} -> "R"
      [] OTHER -> "none"

\* sync.RWMutex: Lock waits for the writer and the readers to be gone, RLock
\* for the writer to be gone and for no Lock call to be waiting.
CanLock(l) == l.w = "" /\ l.r = {}
CanRLock(l) == l.w = "" /\ l.waiting = {}

\* A goroutine is at rest at a place of its code (op is "idle", "loop" or
\* "do": before Poll, at the top of pollLoop, in c.httpClient.Do), waits for
\* c.mu for an access, or is in the access.
Rest(place) == [op |-> place, phase |-> "rest"]

NoGoroutines ==
    [w |-> "", r |-> {}, waiting |-> {},
     at |-> [g \in Goroutines |-> Rest("idle")],
     active |-> {}, cancelled |-> {}]

\* The accesses a goroutine may start from where it rests.
StartsFrom(g, place, isCancelled) ==
    CASE g = "stopAll" -> {"StopAll"}
      [] g = "activeCount" -> {"ActiveCount"}
      [] g = "with" -> WithMethods
      [] g \in Pollers /\ place = "idle" -> {"register"}
      [] g \in Pollers /\ place = "loop" ->
            IF isCancelled THEN {"deregister"} ELSE {"BodyBuilder"}
      [] g \in Pollers /\ place = "do" -> {"logger", "deregister"}
      [] OTHER -> {}

\* Where a goroutine goes when an access is over.
After(g, op) ==
    CASE op = "register" -> {Rest("loop")}
      [] op = "BodyBuilder" -> {[op |-> "Method", phase |-> "in"]}
      [] op = "Method" -> {[op |-> "headers", phase |-> "wait"]}
      [] op = "headers" -> {Rest("do")}
      [] op = "logger" -> {Rest("loop"), [op |-> "deregister", phase |-> "wait"]}
      [] OTHER -> {Rest("idle")}

\* A goroutine starts an access: it calls Lock or RLock, or goes into the
\* access when the code takes no lock for it.
LockStart(g, op) ==
    /\ locking.at[g].phase = "rest"
    /\ op \in StartsFrom(g, locking.at[g].op, g \in locking.cancelled)
    /\ locking' = [locking EXCEPT
           !.at[g] = [op |-> op, phase |-> IF LockFor(op) = "none" THEN "in" ELSE "wait"],
           !.waiting = IF LockFor(op) = "W" THEN @ \cup {g} ELSE @,
           !.cancelled = IF op = "register" THEN @ \ {g} ELSE @]
    /\ UNCHANGED <<MaxRetriesInput, MaxRetries, active, pc, done, retries,
                   currentURL, timerFired, result, hist, firedAt, bodyOpen,
                   script, request, libs>>

\* c.httpClient.Do returns a response that the handler takes and pollLoop
\* goes round without reading c.logger.
LockLoop(g) ==
    /\ locking.at[g] = Rest("do")
    /\ locking' = [locking EXCEPT !.at[g] = Rest("loop")]
    /\ UNCHANGED <<MaxRetriesInput, MaxRetries, active, pc, done, retries,
                   currentURL, timerFired, result, hist, firedAt, bodyOpen,
                   script, request, libs>>

\* Lock or RLock returns.
LockAcquire(g) ==
    /\ locking.at[g].phase = "wait"
    /\ LET mode == LockFor(locking.at[g].op) IN
       /\ mode = "W" => CanLock(locking)
       /\ mode = "R" => CanRLock([locking EXCEPT !.waiting = @ \ {g}])
       /\ locking' = [locking EXCEPT
              !.at[g].phase = "in",
              !.w = IF mode = "W" THEN g ELSE @,
              !.r = IF mode = "R" THEN @ \cup {g} ELSE @,
              !.waiting = @ \ {g}]
    /\ UNCHANGED <<MaxRetriesInput, MaxRetries, active, pc, done, retries,
                   currentURL, timerFired, result, hist, firedAt, bodyOpen,
                   script, request, libs>>

\* The access is over: its effect on c.active and on the pollContexts, then
\* Unlock or RUnlock.
LockFinish(g, next) ==
    /\ locking.at[g].phase = "in"
    /\ next \in After(g, locking.at[g].op)
    /\ LET op == locking.at[g].op IN
       locking' = [locking EXCEPT
           !.at[g] = IF next.phase = "wait" /\ LockFor(next.op) = "none"
                       THEN [next EXCEPT !.phase = "in"] ELSE next,
           !.waiting = IF next.phase = "wait" /\ LockFor(next.op) = "W" THEN @ \cup {g} ELSE @,
           !.w = IF @ = g THEN "" ELSE @,
           !.r = @ \ {g},
           !.active = CASE op = "register" -> Register(@, g)
                        [] op = "deregister" -> Deregister(@, g)
                        [] OTHER -> @,
           !.cancelled = IF op = "StopAll" THEN @ \cup StopAllTargets(locking.active) ELSE @]
    /\ UNCHANGED <<MaxRetriesInput, MaxRetries, active, pc, done, retries,
                   currentURL, timerFired, result, hist, firedAt, bodyOpen,
                   script, request, libs>>

\* ---------------------------------------------------------------- Init
\* A client built by NewWithConfig from one of the given MaxRetries values, no
\* Poll called yet.
InitClient(inputs) ==
    /\ MaxRetriesInput \in inputs
    /\ MaxRetries = NewWithConfig(MaxRetriesInput)
    /\ active = {}
    /\ pc = [s \in Sessions |-> "idle"]
    /\ done = [s \in Sessions |-> FALSE]
    /\ retries = [s \in Sessions |-> 0]
    /\ currentURL = [s \in Sessions |-> InitialURL]
    /\ timerFired = [s \in Sessions |-> FALSE]
    /\ result = [s \in Sessions |-> "pending"]
    /\ attempts = [s \in Sessions |-> 0]
    /\ failures = [s \in Sessions |-> 0]
    /\ delays = [s \in Sessions |-> 0]
    /\ handlerCalls = [s \in Sessions |-> 0]
    /\ lastHandler = [s \in Sessions |-> NoHandler]
    /\ requestURL = [s \in Sessions |-> ""]
    /\ directed = [s \in Sessions |-> InitialURL]
    /\ firedAt = [s \in Sessions |-> NotFired]
    /\ aborted = [s \in Sessions |-> FALSE]
    /\ bodyOpen = [s \in Sessions |-> FALSE]

LibsUnused ==
    /\ throttle = ThrottleUnused
    /\ retryDo = RetryUnused
    /\ group = GroupUnused

Init ==
    /\ InitClient(MaxRetriesInputs)
    /\ script = << >>
    /\ request = DefaultRequests
    /\ locking = NoGoroutines
    /\ LibsUnused

\* ---------------------------------------------------------------- actions
\* The caller's context is cancelled or its deadline passes; pollCtx is
\* derived from it by context.WithCancel.
CancelContext(s) ==
    /\ pc[s] \notin {"deregister", "returned"}
    /\ ~done[s]
    /\ done' = [done EXCEPT ![s] = TRUE]
    /\ firedAt' = [firedAt EXCEPT ![s] = [by |-> "ctx", at |-> pc[s]]]
    /\ UNCHANGED <<MaxRetriesInput, MaxRetries, active, pc, retries, currentURL,
                   timerFired, result, hist>>
    /\ UNCHANGED <<bodyOpen, script, request, locking, libs>>

\* Poll up to pollLoop: context.WithCancel, then the registration under c.mu.
PollStart(s) ==
    /\ pc[s] = "idle"
    /\ pc' = [pc EXCEPT ![s] = "entered"]
    /\ UNCHANGED <<MaxRetriesInput, MaxRetries, active, done, retries, currentURL,
                   timerFired, result, hist, firedAt>>
    /\ UNCHANGED <<bodyOpen, script, request, locking, libs>>

PollRegister(s) ==
    /\ pc[s] = "entered"
    /\ active' = Register(active, s)
    /\ retries' = [retries EXCEPT ![s] = 0]
    /\ currentURL' = [currentURL EXCEPT ![s] = InitialURL]
    /\ pc' = [pc EXCEPT ![s] = "check"]
    /\ UNCHANGED <<MaxRetriesInput, MaxRetries, done, timerFired, result, hist,
                   firedAt>>
    /\ UNCHANGED <<bodyOpen, script, request, locking, libs>>

\* pollLoop, the select at the top of the loop, ctx.Done() ready.
CheckDone(s) ==
    /\ pc[s] = "check"
    /\ Checkpoint(done[s])
    /\ result' = [result EXCEPT ![s] = "ctxErr"]
    /\ pc' = [pc EXCEPT ![s] = "deregister"]
    /\ UNCHANGED <<MaxRetriesInput, MaxRetries, active, done, retries, currentURL,
                   timerFired, hist, firedAt>>
    /\ UNCHANGED <<bodyOpen, script, request, locking, libs>>

\* pollLoop, the select at the top of the loop falls through to makeRequest,
\* which issues the exchange to currentURL.
IssueRequest(s, allowed) ==
    /\ pc[s] = "check"
    /\ ~Checkpoint(done[s])
    /\ allowed
    /\ attempts' = [attempts EXCEPT ![s] = @ + 1]
    /\ requestURL' = [requestURL EXCEPT ![s] = currentURL[s]]
    /\ pc' = [pc EXCEPT ![s] = "request"]
    /\ UNCHANGED <<MaxRetriesInput, MaxRetries, active, done, retries, currentURL,
                   timerFired, result, failures, delays, handlerCalls,
                   lastHandler, directed, aborted, firedAt>>
    /\ UNCHANGED <<bodyOpen, script, request, locking, libs>>

\* makeRequest returns an error (wasAborted: the transport gave up because
\* ctx was done; nonSuccess: a response came with a status outside [200,300)
\* and its body was read and closed; otherwise a transport error), and
\* pollLoop applies the retry policy.
RequestFails(s, wasAborted, nonSuccess) ==
    /\ pc[s] = "request"
    /\ wasAborted => done[s] /\ ~nonSuccess
    /\ failures' = [failures EXCEPT ![s] = @ + 1]
    /\ aborted' = [aborted EXCEPT ![s] = wasAborted]
    /\ IF RetriesExhausted(MaxRetries, retries[s])
         THEN /\ result' = [result EXCEPT ![s] = "maxRetries"]
              /\ pc' = [pc EXCEPT ![s] = "deregister"]
              /\ UNCHANGED <<retries, delays, timerFired>>
         ELSE /\ retries' = [retries EXCEPT ![s] = @ + 1]
              /\ delays' = [delays EXCEPT ![s] = @ + 1]
              /\ timerFired' = [timerFired EXCEPT ![s] = FALSE]
              /\ pc' = [pc EXCEPT ![s] = "sleep"]
              /\ UNCHANGED result
    /\ UNCHANGED <<MaxRetriesInput, MaxRetries, active, done, currentURL,
                   attempts, handlerCalls, lastHandler, requestURL, directed,
                   firedAt>>
    /\ bodyOpen' = [bodyOpen EXCEPT ![s] =
           IF nonSuccess THEN BodyAfterNonSuccess(TRUE) ELSE @]
    /\ UNCHANGED <<script, request, locking, libs>>

\* The retry delay elapses: the channel of time.After becomes ready.
TimerFires(s) ==
    /\ pc[s] = "sleep"
    /\ ~timerFired[s]
    /\ timerFired' = [timerFired EXCEPT ![s] = TRUE]
    /\ UNCHANGED <<MaxRetriesInput, MaxRetries, active, pc, done, retries,
                   currentURL, result, hist, firedAt>>
    /\ UNCHANGED <<bodyOpen, script, request, locking, libs>>

\* pollLoop, the select of the retry delay takes one of its ready cases.
SleepWakes(s) ==
    /\ pc[s] = "sleep"
    /\ \E c \in SleepReady(done[s], timerFired[s]) :
         IF c = "done"
           THEN /\ result' = [result EXCEPT ![s] = "ctxErr"]
                /\ pc' = [pc EXCEPT ![s] = "deregister"]
           ELSE /\ pc' = [pc EXCEPT ![s] = "check"]
                /\ UNCHANGED result
    /\ UNCHANGED <<MaxRetriesInput, MaxRetries, active, done, retries, currentURL,
                   timerFired, hist, firedAt>>
    /\ UNCHANGED <<bodyOpen, script, request, locking, libs>>

\* makeRequest returns a response with a status in [200,300): retries is
\* reset and the handler is invoked.
RequestSucceeds(s) ==
    /\ pc[s] = "request"
    /\ retries' = [retries EXCEPT ![s] = RetriesAfterSuccess(@)]
    /\ failures' = [failures EXCEPT ![s] = 0]
    /\ aborted' = [aborted EXCEPT ![s] = FALSE]
    /\ handlerCalls' = [handlerCalls EXCEPT ![s] = @ + 1]
    /\ pc' = [pc EXCEPT ![s] = "handler"]
    /\ UNCHANGED <<MaxRetriesInput, MaxRetries, active, done, currentURL,
                   timerFired, result, attempts, delays, lastHandler,
                   requestURL, directed, firedAt>>
    /\ bodyOpen' = [bodyOpen EXCEPT ![s] = TRUE]
    /\ UNCHANGED <<script, request, locking, libs>>

\* The handler returns (nextURL, shouldContinue, err) and pollLoop acts on it.
HandlerReturns(s, nextURL, shouldContinue, err) ==
    /\ pc[s] = "handler"
    /\ lastHandler' = [lastHandler EXCEPT ![s] =
           [called |-> TRUE, nextURL |-> nextURL,
            shouldContinue |-> shouldContinue, err |-> err]]
    /\ LET d == HandlerDirective(shouldContinue, err) IN
       /\ currentURL' = [currentURL EXCEPT ![s] =
              IF d = "error" THEN @ ELSE NextURL(@, nextURL)]
       /\ directed' = [directed EXCEPT ![s] =
              IF ~err /\ shouldContinue /\ nextURL # "" THEN nextURL ELSE @]
       /\ result' = [result EXCEPT ![s] =
              CASE d = "error" -> "handlerError"
                [] d = "stop" -> "nil"
                [] OTHER -> @]
       /\ pc' = [pc EXCEPT ![s] = IF d = "continue" THEN "postcheck" ELSE "deregister"]
    /\ UNCHANGED <<MaxRetriesInput, MaxRetries, active, done, retries,
                   timerFired, attempts, failures, delays, handlerCalls,
                   requestURL, aborted, firedAt>>
    /\ bodyOpen' = [bodyOpen EXCEPT ![s] =
           BodyAfterHandler(HandlerDirective(shouldContinue, err), @)]
    /\ UNCHANGED <<script, request, locking, libs>>

\* pollLoop, the select at the bottom of the loop.
PostCheck(s) ==
    /\ pc[s] = "postcheck"
    /\ IF Checkpoint(done[s])
         THEN /\ result' = [result EXCEPT ![s] = "ctxErr"]
              /\ pc' = [pc EXCEPT ![s] = "deregister"]
         ELSE /\ pc' = [pc EXCEPT ![s] = "check"]
              /\ UNCHANGED result
    /\ UNCHANGED <<MaxRetriesInput, MaxRetries, active, done, retries, currentURL,
                   timerFired, hist, firedAt>>
    /\ UNCHANGED <<bodyOpen, script, request, locking, libs>>

\* Poll returns: the deferred delete under c.mu, then the deferred cancel().
PollReturn(s) ==
    /\ pc[s] = "deregister"
    /\ active' = Deregister(active, s)
    /\ done' = [done EXCEPT ![s] = TRUE]
    /\ pc' = [pc EXCEPT ![s] = "returned"]
    /\ UNCHANGED <<MaxRetriesInput, MaxRetries, retries, currentURL, timerFired,
                   result, hist, firedAt>>
    /\ UNCHANGED <<bodyOpen, script, request, locking, libs>>

\* StopAll: under c.mu, cancel every registered pollContext.
StopAll ==
    /\ done' = [s \in Sessions |-> done[s] \/ s \in StopAllTargets(active)]
    /\ firedAt' = [s \in Sessions |->
           IF s \in active /\ ~done[s]
             THEN [by |-> "StopAll", at |-> "registered"] ELSE firedAt[s]]
    /\ UNCHANGED <<MaxRetriesInput, MaxRetries, active, pc, retries, currentURL,
                   timerFired, result, hist>>
    /\ UNCHANGED <<bodyOpen, script, request, locking, libs>>

\* makeRequest runs for the attempt just started: body builder, request,
\* c.httpClient.Do and the status test, against what the environment does.
MakeRequestRuns(s, o) ==
    /\ pc[s] = "request"
    /\ request.made[s].n < attempts[s]
    /\ o.fault = "body" => request.BodyBuilder
    /\ o.fault = "abort" => done[s]
    /\ LET ret == makeRequest(request.BodyBuilder, request.Timeout, o) IN
       request' = [request EXCEPT !.made[s] =
           [n |-> attempts[s], o |-> o, ret |-> ret,
            builds |-> @.builds + (IF ret.built THEN 1 ELSE 0),
            sends |-> @.sends + (IF ret.sent THEN 1 ELSE 0)]]
    /\ UNCHANGED <<MaxRetriesInput, MaxRetries, active, pc, done, retries,
                   currentURL, timerFired, result, hist, firedAt, bodyOpen,
                   script, locking, libs>>

\* pollLoop receives the error makeRequest returned.
MakeRequestFailed(s) ==
    /\ request.made[s].n = attempts[s]
    /\ request.made[s].ret.err
    /\ RequestFails(s, request.made[s].ret.kind = "abort",
                       request.made[s].ret.kind = "status")

\* pollLoop receives the response makeRequest returned.
MakeRequestSucceeded(s) ==
    /\ request.made[s].n = attempts[s]
    /\ ~request.made[s].ret.err
    /\ RequestSucceeds(s)

\* ---------------------------------------------------------------- specifications
RECURSIVE Sum(_, _)
Sum(f, S) == IF S = {} THEN 0 ELSE LET x == CHOOSE y \in S : TRUE IN f[x] + Sum(f, S \ {x})

Step(s, allowed, nextURLs) ==
    \/ PollStart(s)
    \/ PollRegister(s)
    \/ CheckDone(s)
    \/ IssueRequest(s, allowed)
    \/ \E wasAborted \in BOOLEAN, nonSuccess \in BOOLEAN :
          RequestFails(s, wasAborted, nonSuccess)
    \/ TimerFires(s)
    \/ SleepWakes(s)
    \/ RequestSucceeds(s)
    \/ \E nextURL \in nextURLs, shouldContinue \in BOOLEAN, err \in BOOLEAN :
          HandlerReturns(s, nextURL, shouldContinue, err)
    \/ PostCheck(s)
    \/ PollReturn(s)

\* One session on the client, every retry setting, up to MaxAttempts exchanges.
Next ==
    \/ CancelContext(1)
    \/ Step(1, attempts[1] < MaxAttempts, NextURLs)
    \/ StopAll

Spec == Init /\ [][Next]_vars

\* All sessions running concurrently on the client, their handlers keeping
\* the address (as PollSimple's do), cancelled by StopAll only.
NextGroup ==
    \/ \E s \in Sessions : Step(s, Sum(attempts, Sessions) < GroupAttempts, {""})
    \/ StopAll

\* The group's clients are built with unlimited retries or with one retry.
InitGroup == Init /\ MaxRetriesInput \in {-1, 1}

SpecGroup == InitGroup /\ [][NextGroup]_vars

\* Two sessions see the same endpoint and handler behaviour, fixed by script:
\* session PollCaller calls Poll with a handler that returns an empty nextURL
\* and what the script says, session SimpleCaller calls PollSimple with a
\* handler that returns what the script says.
PollCaller == 1
SimpleCaller == 2
ScriptItems ==
    {[ok |-> FALSE, shouldContinue |-> FALSE, err |-> FALSE]}
    \cup {[ok |-> TRUE, shouldContinue |-> sc, err |-> e] : sc \in BOOLEAN, e \in BOOLEAN}
Scripts == [1..ScriptLen -> ScriptItems]

ScriptedFailure(s) ==
    /\ pc[s] = "request"
    /\ ~script[attempts[s]].ok
    /\ RequestFails(s, FALSE, TRUE)

ScriptedSuccess(s) ==
    /\ pc[s] = "request"
    /\ script[attempts[s]].ok
    /\ RequestSucceeds(s)

PollHandlerReturns(s) ==
    /\ pc[s] = "handler"
    /\ LET h == script[attempts[s]] IN
         HandlerReturns(s, "", h.shouldContinue, h.err)

PollSimpleHandlerReturns(s) ==
    /\ pc[s] = "handler"
    /\ LET h == script[attempts[s]]
           r == PollSimpleHandler(h.shouldContinue, h.err)
       IN  HandlerReturns(s, r.nextURL, r.shouldContinue, r.err)

ScriptedStep(s) ==
    \/ PollStart(s)
    \/ PollRegister(s)
    \/ IssueRequest(s, attempts[s] < Len(script))
    \/ ScriptedFailure(s)
    \/ TimerFires(s)
    \/ SleepWakes(s)
    \/ ScriptedSuccess(s)
    \/ PostCheck(s)
    \/ PollReturn(s)

NextSimple ==
    \/ \E s \in {PollCaller, SimpleCaller} : ScriptedStep(s)
    \/ PollHandlerReturns(PollCaller)
    \/ PollSimpleHandlerReturns(SimpleCaller)

InitSimple ==
    /\ InitClient(MaxRetriesInputs)
    /\ script \in Scripts
    /\ request = DefaultRequests
    /\ locking = NoGoroutines
    /\ LibsUnused

SpecSimple == InitSimple /\ [][NextSimple]_vars

\* Requests served through one throttle middleware instance.
NextThrottle ==
    \/ \E r \in Requests, route \in Routes : ThrottleServe(r, route)
    \/ \E r \in Requests, panics \in BOOLEAN : ThrottleHandlerEnds(r, panics)
    \/ \E r \in Requests : ThrottleNextRequest(r)

InitThrottle ==
    /\ InitClient({-1})
    /\ script = << >>
    /\ request = DefaultRequests
    /\ locking = NoGoroutines
    /\ \E limit \in ThrottleLimits : throttle = GlobalThrottle(limit)
    /\ retryDo = RetryUnused
    /\ group = GroupUnused

SpecThrottle == InitThrottle /\ [][NextThrottle]_vars

\* One call of retry.Do.
NextRetry ==
    \/ RetryCancel
    \/ RetryExhausted
    \/ RetryAttempt
    \/ \E outcome \in FnOutcomes, half \in BOOLEAN : RetryFnReturns(outcome, half)
    \/ \E cancelled \in BOOLEAN : RetrySleepEnds(cancelled)

InitRetry ==
    /\ InitClient({-1})
    /\ script = << >>
    /\ request = DefaultRequests
    /\ locking = NoGoroutines
    /\ throttle = ThrottleUnused
    /\ \E maxAttempts \in StrategyMaxAttempts, jitter \in BOOLEAN :
          retryDo = RetryDo(maxAttempts, jitter)
    /\ group = GroupUnused

SpecRetry == InitRetry /\ [][NextRetry]_vars

\* One router group: middlewares are added and routes registered.
NextRouter ==
    \/ \E mws \in UseArgs : GroupUse(mws)
    \/ \E method \in RouteMethods : GroupHandle(method)

InitRouter ==
    /\ InitClient({-1})
    /\ script = << >>
    /\ request = DefaultRequests
    /\ locking = NoGoroutines
    /\ throttle = ThrottleUnused
    /\ retryDo = RetryUnused
    /\ group = New

SpecRouter == InitRouter /\ [][NextRouter]_vars

\* One session whose calls of makeRequest are looked into, on a client built
\* with or without a body builder, PollTimeout and HTTP client.
NextExchange ==
    \/ CancelContext(1)
    \/ PollStart(1)
    \/ PollRegister(1)
    \/ CheckDone(1)
    \/ IssueRequest(1, attempts[1] < ExchangeAttempts)
    \/ \E o \in Outcomes : MakeRequestRuns(1, o)
    \/ MakeRequestFailed(1)
    \/ MakeRequestSucceeded(1)
    \/ TimerFires(1)
    \/ SleepWakes(1)
    \/ \E shouldContinue \in BOOLEAN, err \in BOOLEAN :
          HandlerReturns(1, "", shouldContinue, err)
    \/ PostCheck(1)
    \/ PollReturn(1)

InitExchange ==
    /\ InitClient({-1, 1})
    /\ script = << >>
    /\ \E bodyBuilder \in BOOLEAN, pollTimeout \in PollTimeoutInputs,
          client \in HTTPClientInputs :
          request = ClientRequests(bodyBuilder, pollTimeout, client)
    /\ locking = NoGoroutines
    /\ LibsUnused

SpecExchange == InitExchange /\ [][NextExchange]_vars

\* Two Poll calls on one client, each with a context of its own that may be
\* cancelled, their handlers free to move the address; StopAll is not called.
PairCallers == {1, 2}

NextPair ==
    \/ \E s \in PairCallers : CancelContext(s)
    \/ \E s \in PairCallers :
          Step(s, Sum(attempts, Sessions) < GroupAttempts, {"", "u1"})

InitPair == Init /\ MaxRetriesInput \in {-1, 1}

SpecPair == InitPair /\ [][NextPair]_vars

\* StopAll is called while one Poll call is running, and a second Poll call
\* is made on the same client after that StopAll has cancelled the first.
FirstCaller == 1
LaterCaller == 2

NextRestart ==
    \/ Step(FirstCaller, attempts[FirstCaller] < GroupAttempts, {""})
    \/ StopAll
    \/ /\ firedAt[FirstCaller].by = "StopAll"
       /\ Step(LaterCaller, attempts[LaterCaller] < GroupAttempts, {""})

SpecRestart == InitPair /\ [][NextRestart]_vars

\* The one session of Spec under fair scheduling: the goroutine of Poll takes
\* the step it is ready for, the transport completes or aborts the exchange in
\* flight, and the handler returns.
Scheduled(s) ==
    \/ PollStart(s)
    \/ PollRegister(s)
    \/ CheckDone(s)
    \/ IssueRequest(s, attempts[s] < MaxAttempts)
    \/ SleepWakes(s)
    \/ PostCheck(s)
    \/ PollReturn(s)

TransportCompletes(s) ==
    \/ \E wasAborted \in BOOLEAN, nonSuccess \in BOOLEAN :
          RequestFails(s, wasAborted, nonSuccess)
    \/ RequestSucceeds(s)

HandlerCompletes(s) ==
    \E nextURL \in NextURLs, shouldContinue \in BOOLEAN, err \in BOOLEAN :
        HandlerReturns(s, nextURL, shouldContinue, err)

Fairness ==
    /\ WF_vars(Scheduled(1))
    /\ WF_vars(TransportCompletes(1))
    /\ WF_vars(HandlerCompletes(1))

FairSpec == Spec /\ Fairness

\* The goroutines that share one client, at the grain of c.mu.
NextLocking ==
    \/ \E g \in Goroutines, op \in Ops : LockStart(g, op)
    \/ \E g \in Pollers : LockLoop(g)
    \/ \E g \in Goroutines : LockAcquire(g)
    \/ \E g \in Goroutines : \E next \in After(g, locking.at[g].op) : LockFinish(g, next)

InitLocking ==
    /\ InitClient({-1})
    /\ script = << >>
    /\ request = DefaultRequests
    /\ locking = NoGoroutines
    /\ LibsUnused

SpecLocking == InitLocking /\ [][NextLocking]_vars

\* ---------------------------------------------------------------- properties
\* pollLoop has returned: Poll is running its deferred calls or has returned.
Terminal(s) == pc[s] \in {"deregister", "returned"}

\* Every exchange the session has issued and seen the end of has failed.
AllFailed(s) ==
    /\ attempts[s] > 0
    /\ failures[s] = attempts[s] - (IF pc[s] = "request" THEN 1 ELSE 0)

\* C1 (as stated): for every configured MaxRetries N >= 0, a session whose
\* every exchange fails issues at most N+1 exchanges and ends with the
\* retry-exhaustion error at exactly N+1.
C1_AsStated ==
    \A s \in Sessions :
        (MaxRetriesInput >= 0 /\ AllFailed(s)) =>
            /\ attempts[s] <= MaxRetriesInput + 1
            /\ (result[s] = "maxRetries" => attempts[s] = MaxRetriesInput + 1)

\* C1 (amended): for every configured MaxRetries N >= 1, a session whose every
\* exchange fails issues at most N+1 exchanges, has ended with the
\* retry-exhaustion error once N+1 of them failed, and ends with it at no other
\* count; a configured 0 is replaced by -1 and never ends in retry exhaustion.
C1_ExhaustionAfterNPlusOne ==
    \A s \in Sessions :
        /\ (MaxRetriesInput >= 1 /\ AllFailed(s)) =>
              /\ attempts[s] <= MaxRetriesInput + 1
              /\ (result[s] = "maxRetries" => attempts[s] = MaxRetriesInput + 1)
              /\ (failures[s] = MaxRetriesInput + 1 => result[s] = "maxRetries")
        /\ MaxRetriesInput = 0 => result[s] # "maxRetries"

C1_Witness ==
    \E s \in Sessions :
        /\ MaxRetriesInput = MaxN
        /\ AllFailed(s)
        /\ result[s] = "maxRetries"
        /\ attempts[s] = MaxN + 1

\* C2: with MaxRetries = 2 and an endpoint that fails every exchange, Poll
\* returns the retry-exhaustion error after exactly 3 exchanges and 2 retry
\* delays, and the handler is never invoked.
C2_ThreeAttemptsTwoDelays ==
    \A s \in Sessions :
        (MaxRetriesInput = TestMaxRetries /\ AllFailed(s)) =>
            /\ handlerCalls[s] = 0
            /\ attempts[s] <= TestMaxRetries + 1
            /\ delays[s] <= TestMaxRetries
            /\ (failures[s] = TestMaxRetries + 1 => result[s] = "maxRetries")
            /\ (result[s] = "maxRetries" =>
                   attempts[s] = TestMaxRetries + 1 /\ delays[s] = TestMaxRetries)

C2_Witness ==
    \E s \in Sessions :
        /\ MaxRetriesInput = TestMaxRetries
        /\ result[s] = "maxRetries"
        /\ pc[s] = "returned"
        /\ handlerCalls[s] = 0
        /\ attempts[s] = 3
        /\ delays[s] = 2
        /\ firedAt[s] = NotFired

\* C3: a successful exchange resets the consecutive-failure counter: with a
\* finite MaxRetries = N, retry exhaustion happens at the (N+1)-th failed
\* exchange since the last successful one (or since the start), whatever
\* failed before that success.
C3_SuccessResetsRetries ==
    \A s \in Sessions :
        /\ pc[s] \in {"handler", "postcheck"} => retries[s] = 0
        /\ MaxRetries >= 0 =>
              /\ failures[s] <= MaxRetries + 1
              /\ (result[s] = "maxRetries" <=> failures[s] = MaxRetries + 1)

C3_Witness ==
    \E s \in Sessions :
        /\ MaxRetries = MaxN
        /\ result[s] = "maxRetries"
        /\ handlerCalls[s] = 1
        /\ lastHandler[s].shouldContinue
        /\ failures[s] = MaxN + 1
        /\ attempts[s] = MaxN + 3

\* C4: when the cancellation signal fires during the retry delay, the wait can
\* end at once (the timer need not have fired), the session issues no further
\* exchange, and Poll returns the context's error.
C4_SleepInterrupted ==
    \A s \in Sessions :
        /\ (pc[s] = "sleep" /\ done[s]) => ENABLED SleepWakes(s)
        /\ firedAt[s].at = "sleep" =>
              /\ pc[s] \in {"sleep", "check", "deregister", "returned"}
              /\ (Terminal(s) => result[s] = "ctxErr")

C4_Witness ==
    \E s \in Sessions :
        /\ firedAt[s].at = "sleep"
        /\ ~timerFired[s]
        /\ pc[s] = "returned"
        /\ result[s] = "ctxErr"

\* C5: a session is in c.active exactly from its registration to its
\* deregistration, and once no Poll call is between its start and its
\* registration ActiveCount() is the number of Poll calls started minus the
\* number that have returned.
Registered == {"check", "request", "sleep", "handler", "postcheck", "deregister"}
Started == {s \in Sessions : pc[s] # "idle"}
Returned == {s \in Sessions : pc[s] = "returned"}
Settled == \A s \in Sessions : pc[s] # "entered"

C5_RegistryInvariant ==
    /\ \A s \in Sessions : s \in active <=> pc[s] \in Registered
    /\ Settled => ActiveCount = Cardinality(Started) - Cardinality(Returned)

C5_Witness ==
    /\ pc[1] = "returned" /\ result[1] = "maxRetries"
    /\ pc[2] = "returned" /\ result[2] = "ctxErr"
    /\ pc[3] = "handler"
    /\ ActiveCount = 1

\* C6 (as stated): every session that was running when StopAll was called
\* terminates with a cancellation error.
C6_AsStated ==
    \A s \in Sessions :
        (firedAt[s].by = "StopAll" /\ Terminal(s)) => result[s] = "ctxErr"

\* C6 (amended): StopAll fires the signal of every running session; from then
\* on such a session issues no new exchange and returns the context's error at
\* the first checkpoint or retry delay it is in or reaches, so that it ends
\* otherwise only by the exchange that was in flight (handler stop, handler
\* error, retry exhaustion); when all sessions have returned ActiveCount() is 0.
C6_StopAllCancelsRunning ==
    /\ [](\A s \in Sessions : firedAt[s].by = "StopAll" => done[s])
    /\ []((\A s \in Sessions : pc[s] = "returned") => ActiveCount = 0)
    /\ [][\A s \in Sessions :
            done[s] =>
               /\ attempts'[s] = attempts[s]
               /\ (pc[s] \in {"check", "sleep", "postcheck"} /\ pc'[s] \notin {pc[s], "check"}) =>
                      (pc'[s] = "deregister" /\ result'[s] = "ctxErr")]_vars

C6_Witness ==
    /\ \A s \in Sessions :
          /\ firedAt[s].by = "StopAll"
          /\ attempts[s] = 1
          /\ pc[s] = "returned"
          /\ result[s] = "ctxErr"
    /\ ActiveCount = 0

\* C7: when the signal fires while an exchange is in flight and the transport
\* aborts the exchange, Poll returns the context's error, not the
\* retry-exhaustion error.
C7_AbortIsCancellation ==
    \A s \in Sessions :
        (aborted[s] /\ Terminal(s)) => result[s] = "ctxErr"

\* C8: every exchange, retries included, is sent to the address the handler
\* last returned together with shouldContinue = true (the initial address
\* before that).
C8_NextURLIsUsed ==
    \A s \in Sessions :
        (attempts[s] > 0 /\ pc[s] \in {"request", "sleep"}) => requestURL[s] = directed[s]

C8_Witness ==
    \E s \in Sessions :
        /\ pc[s] = "request"
        /\ lastHandler[s].nextURL = "u2"
        /\ lastHandler[s].shouldContinue
        /\ failures[s] >= 1
        /\ requestURL[s] = "u2"

\* C9: when the handler returns an error, Poll returns the handler error at
\* once, whatever else the handler returned: no exchange, retry delay or
\* handler call follows.
C9_HandlerErrorIsFatal ==
    /\ [](\A s \in Sessions :
            lastHandler[s].err => (Terminal(s) /\ result[s] = "handlerError"))
    /\ [][\A s \in Sessions :
            lastHandler[s].err =>
               /\ attempts'[s] = attempts[s]
               /\ delays'[s] = delays[s]
               /\ handlerCalls'[s] = handlerCalls[s]
               /\ result'[s] = result[s]]_vars

C9_Witness ==
    \E s \in Sessions :
        /\ MaxRetries = -1
        /\ lastHandler[s].err
        /\ lastHandler[s].shouldContinue
        /\ lastHandler[s].nextURL = "u1"
        /\ pc[s] = "returned"
        /\ result[s] = "handlerError"

\* C10: Poll returns nil exactly when the handler returned shouldContinue =
\* false without error; every other return is one of the three errors; after
\* pollLoop has returned no exchange or handler call follows.
HandlerStopped(s) ==
    lastHandler[s].called /\ ~lastHandler[s].shouldContinue /\ ~lastHandler[s].err

C10_NilIffHandlerStops ==
    /\ [](\A s \in Sessions :
            /\ Terminal(s) <=> result[s] # "pending"
            /\ HandlerStopped(s) => Terminal(s)
            /\ Terminal(s) =>
                  /\ result[s] \in {"nil", "handlerError", "maxRetries", "ctxErr"}
                  /\ (result[s] = "nil" <=> HandlerStopped(s)))
    /\ [][\A s \in Sessions :
            Terminal(s) =>
               /\ attempts'[s] = attempts[s]
               /\ handlerCalls'[s] = handlerCalls[s]
               /\ result'[s] = result[s]]_vars

C10_Witness ==
    \E s \in Sessions :
        /\ pc[s] = "returned"
        /\ result[s] = "nil"
        /\ lastHandler[s].nextURL = "u2"
        /\ ~lastHandler[s].shouldContinue

\* C11: a response body is open only while the handler runs: it is closed when
\* the handler has returned, on every path, and the body of a non-success
\* response is closed inside makeRequest; none is open during the next
\* exchange, the retry delay or after pollLoop returned.
C11_BodiesReleased ==
    \A s \in Sessions : bodyOpen[s] => pc[s] = "handler"

C11_Witness ==
    \E s \in Sessions :
        /\ pc[s] = "returned"
        /\ lastHandler[s].err
        /\ handlerCalls[s] = 2
        /\ delays[s] >= 1
        /\ ~bodyOpen[s]

\* C12: with a finite MaxRetries = N, k <= N consecutive failures do not end
\* the session, and when the exchange after them succeeds and the handler,
\* invoked for the first time, stops, Poll returns nil after k+1 exchanges
\* and k retry delays.
C12_RetryThenStop ==
    \A s \in Sessions :
        MaxRetries >= 0 =>
            /\ failures[s] <= MaxRetries => result[s] # "maxRetries"
            /\ (result[s] = "nil" /\ handlerCalls[s] = 1) =>
                   /\ delays[s] = attempts[s] - 1
                   /\ delays[s] <= MaxRetries

C12_Witness ==
    \E s \in Sessions :
        /\ MaxRetriesInput = TestMaxRetries
        /\ pc[s] = "returned"
        /\ result[s] = "nil"
        /\ attempts[s] = TestMaxRetries + 1
        /\ delays[s] = TestMaxRetries
        /\ handlerCalls[s] = 1

\* C13: the exchanges of a session are sequential: one is issued only from the
\* top of the loop, one at a time, when no exchange is in flight, no handler is
\* running and the body of the previous response is closed.
C13_AttemptsSequential ==
    /\ [](\A s \in Sessions : pc[s] = "request" => ~bodyOpen[s])
    /\ [][\A s \in Sessions :
            attempts'[s] # attempts[s] =>
               /\ attempts'[s] = attempts[s] + 1
               /\ pc[s] = "check"
               /\ pc'[s] = "request"
               /\ ~bodyOpen[s]]_vars

C13_Witness ==
    \E s \in Sessions :
        /\ pc[s] = "request"
        /\ attempts[s] >= 3
        /\ handlerCalls[s] >= 2
        /\ lastHandler[s].shouldContinue
        /\ ~bodyOpen[s]

\* C15: a client built with MaxRetries -1 or 0 (unset) has MaxRetries = -1 and
\* none of its sessions returns the retry-exhaustion error; a session whose
\* every exchange fails starts a retry delay after each failure and ends only
\* with the context's error, after the signal fired.
C15_UnlimitedRetries ==
    \A s \in Sessions :
        MaxRetriesInput \in {-1, 0} =>
            /\ MaxRetries = -1
            /\ result[s] # "maxRetries"
            /\ AllFailed(s) =>
                  /\ delays[s] = failures[s]
                  /\ Terminal(s) => (result[s] = "ctxErr" /\ firedAt[s] # NotFired)

C15_Witness ==
    \E s \in Sessions :
        /\ MaxRetriesInput = 0
        /\ AllFailed(s)
        /\ failures[s] = MaxAttempts
        /\ pc[s] = "sleep"
        /\ ~done[s]

\* C19: an exchange is issued only when the signal has not fired at the
\* checkpoint before it; a session that finds the signal fired at the top or at
\* the bottom of the loop returns the context's error without issuing an
\* exchange, and a Poll called with a cancelled context issues none at all.
C19_Checkpoints ==
    /\ [](\A s \in Sessions :
            firedAt[s].at \in {"idle", "entered"} =>
                /\ attempts[s] = 0
                /\ Terminal(s) => result[s] = "ctxErr")
    /\ [][\A s \in Sessions :
            /\ attempts'[s] # attempts[s] => ~done[s]
            /\ (done[s] /\ pc[s] \in {"check", "postcheck"} /\ pc'[s] # pc[s]) =>
                  /\ pc'[s] = "deregister"
                  /\ result'[s] = "ctxErr"
                  /\ attempts'[s] = attempts[s]]_vars

C19_Witness ==
    \E s \in Sessions :
        /\ firedAt[s] = [by |-> "ctx", at |-> "idle"]
        /\ pc[s] = "returned"
        /\ result[s] = "ctxErr"
        /\ attempts[s] = 0

\* C20: currentURL changes only when the handler returns, without error, a
\* non-empty nextURL, and then to that value; an empty nextURL keeps it, and
\* the exchange after a failed one goes to the same address.
C20_AddressChangesOnlyByHandler ==
    [][\A s \in Sessions :
          /\ currentURL'[s] # currentURL[s] =>
                /\ pc[s] = "handler" /\ pc'[s] # "handler"
                /\ ~lastHandler'[s].err
                /\ lastHandler'[s].nextURL = currentURL'[s]
          /\ (pc[s] = "handler" /\ pc'[s] # "handler" /\ lastHandler'[s].nextURL = "") =>
                currentURL'[s] = currentURL[s]
          /\ (attempts'[s] # attempts[s] /\ failures[s] > 0) =>
                requestURL'[s] = requestURL[s]]_vars

C20_Witness ==
    \E s \in Sessions :
        /\ pc[s] = "request"
        /\ failures[s] >= 1
        /\ handlerCalls[s] >= 2
        /\ lastHandler[s].nextURL = ""
        /\ requestURL[s] = "u1"
        /\ currentURL[s] = "u1"

\* C14: for the same endpoint and handler behaviour, PollSimple and Poll with a
\* handler returning an empty nextURL are in the same state at the same point
\* of the same exchange, end with the same result after the same exchanges,
\* delays and handler calls, and PollSimple sends every exchange to the
\* initial address.
SamePoint == pc[PollCaller] = pc[SimpleCaller] /\ attempts[PollCaller] = attempts[SimpleCaller]
SameSession(f) == f[PollCaller] = f[SimpleCaller]

C14_PollSimpleEquivalent ==
    /\ attempts[SimpleCaller] > 0 => requestURL[SimpleCaller] = InitialURL
    /\ currentURL[SimpleCaller] = InitialURL
    /\ SamePoint =>
          /\ SameSession(retries) /\ SameSession(currentURL) /\ SameSession(result)
          /\ SameSession(failures) /\ SameSession(delays) /\ SameSession(handlerCalls)
          /\ SameSession(requestURL) /\ SameSession(bodyOpen)
    /\ (Terminal(PollCaller) /\ Terminal(SimpleCaller)) =>
          /\ SameSession(result) /\ SameSession(attempts)
          /\ SameSession(delays) /\ SameSession(handlerCalls)

C14_Witness ==
    /\ pc[PollCaller] = "returned" /\ pc[SimpleCaller] = "returned"
    /\ result[SimpleCaller] = "handlerError"
    /\ result[PollCaller] = "handlerError"
    /\ attempts[SimpleCaller] = ScriptLen
    /\ handlerCalls[SimpleCaller] = 2
    /\ delays[SimpleCaller] = 1

\* C16: with Limit > 0 at most Limit requests are inside the wrapped handlers,
\* the semaphore holds one slot per such request (a slot is released when the
\* handler returns or panics), a request is never blocked, it is answered 429
\* without its handler running exactly when Limit requests are in the handlers,
\* and it is admitted otherwise.
InHandler == {r \in Requests : throttle.pc[r] = "handler"}

C16_ThrottleBoundsConcurrency ==
    /\ [](throttle.Limit > 0 =>
            /\ Cardinality(InHandler) <= throttle.Limit
            /\ throttle.ch = Cardinality(InHandler)
            /\ \A r \in Requests :
                  throttle.pc[r] = "idle" => \A route \in Routes : ENABLED ThrottleServe(r, route))
    /\ [][throttle.Limit > 0 =>
            \A r \in Requests :
               throttle.pc[r] = "idle" /\ throttle'.pc[r] # "idle" =>
                  IF Cardinality(InHandler) = throttle.Limit
                    THEN /\ throttle'.pc[r] = "finished"
                         /\ throttle'.status[r] = StatusTooManyRequests
                         /\ throttle'.ch = throttle.ch
                    ELSE /\ throttle'.pc[r] = "handler"
                         /\ throttle'.ch = throttle.ch + 1]_vars

C16_Witness ==
    /\ throttle.Limit = 1
    /\ \E r1, r2, r3 \in Requests :
          /\ throttle.pc[r1] = "handler" /\ throttle.route[r1] = "/a"
          /\ throttle.pc[r2] = "finished" /\ throttle.status[r2] = StatusTooManyRequests
          /\ throttle.route[r2] = "/b"
          /\ throttle.pc[r3] = "panicked"

\* C17 as stated: a max-attempts error is returned after exactly MaxAttempts
\* invocations and exactly MaxAttempts - 1 delays, wrapping the error of the
\* last invocation.
AllRetryable(o) == \A i \in 1..Len(o) : o[i] = "retryable"
RetryLast == retryDo.outcomes[Len(retryDo.outcomes)]
RetryFront == SubSeq(retryDo.outcomes, 1, Len(retryDo.outcomes) - 1)

C17_AsStated ==
    retryDo.result.kind = "maxAttempts" =>
        /\ Len(retryDo.outcomes) = retryDo.MaxAttempts
        /\ retryDo.sleeps = retryDo.MaxAttempts - 1
        /\ retryDo.result.err = Len(retryDo.outcomes)

\* C17: with MaxAttempts >= 1, Do invokes fn at most MaxAttempts times, and
\* never again after an invocation that returned nil or a non-retryable error:
\* it returns nil for the first, that error for the second; it returns the
\* max-attempts error only when all of exactly MaxAttempts invocations
\* returned retryable errors, wrapping the last one, having started
\* MaxAttempts - 1 delays, and then it returns nothing else unless ctx is
\* cancelled. With MaxAttempts <= 0 it returns the max-attempts error wrapping
\* nil, with no invocation and no delay.
C17_RetryDo ==
    LET n == Len(retryDo.outcomes) IN
    /\ AllRetryable(RetryFront)
    /\ (n > 0 /\ RetryLast = "nil") =>
          retryDo.pc = "returned" /\ retryDo.result = [kind |-> "nil", err |-> 0]
    /\ (n > 0 /\ RetryLast = "fatal") =>
          /\ retryDo.pc = "returned" /\ retryDo.result = [kind |-> "err", err |-> n]
          /\ retryDo.sleeps = n - 1
    /\ retryDo.result.kind = "nil" => (n > 0 /\ RetryLast = "nil")
    /\ IF retryDo.MaxAttempts >= 1
         THEN /\ n <= retryDo.MaxAttempts
              /\ retryDo.result.kind = "maxAttempts" =>
                    /\ n = retryDo.MaxAttempts
                    /\ AllRetryable(retryDo.outcomes)
                    /\ retryDo.result.err = n
                    /\ retryDo.sleeps = retryDo.MaxAttempts - 1
         ELSE /\ n = 0
              /\ retryDo.sleeps = 0
              /\ retryDo.pc = "returned" =>
                    retryDo.result = [kind |-> "maxAttempts", err |-> 0]
    /\ (retryDo.pc = "returned" /\ AllRetryable(retryDo.outcomes)) =>
          retryDo.result.kind \in {"maxAttempts", "ctxErr"}
    /\ retryDo.result.kind = "ctxErr" => retryDo.done

C17_Witness ==
    /\ retryDo.MaxAttempts = MaxMaxAttempts
    /\ retryDo.pc = "returned"
    /\ ~retryDo.done
    /\ AllRetryable(retryDo.outcomes)
    /\ retryDo.result = [kind |-> "maxAttempts", err |-> MaxMaxAttempts]
    /\ retryDo.sleeps = MaxMaxAttempts - 1

\* C18: the group is locked exactly when one of Handle, HandleFunc,
\* HandleFiles, HandleRoot, HandleRootFunc has registered a route on it; a call
\* of Use that found a route registered panicked and the stack is the one it
\* found; a call of Use that found none did not panic and appended its
\* arguments in the order given.
C18_UsePanicsWhenLocked ==
    /\ group.routesLocked <=> group.routes # {}
    /\ group.used.mws # << >> =>
          IF group.used.routes # {}
            THEN /\ group.used.panicked
                 /\ group.middlewares = group.used.before
            ELSE /\ ~group.used.panicked
                 /\ group.middlewares = group.used.before \o group.used.mws

C18_Witness ==
    /\ group.used.panicked
    /\ group.used.mws = <<"mwA", "mwB">>
    /\ group.used.routes = {"HandleFunc"}
    /\ group.middlewares = <<"mwB", "mwA">>

\* The step in which pollLoop receives what makeRequest returned for session s.
Received(s) == pc[s] = "request" /\ pc'[s] # "request"

\* In that step the retry policy is applied to a failed attempt: the session
\* ends with the retry-exhaustion error when the budget is used up, else it
\* counts the failure and starts the retry delay; the handler is not invoked
\* and the cancellation signal is left alone.
OrdinaryFailure(s) ==
    /\ handlerCalls'[s] = handlerCalls[s]
    /\ done'[s] = done[s]
    /\ currentURL'[s] = currentURL[s]
    /\ IF MaxRetries >= 0 /\ retries[s] >= MaxRetries
         THEN /\ pc'[s] = "deregister"
              /\ result'[s] = "maxRetries"
              /\ delays'[s] = delays[s]
         ELSE /\ pc'[s] = "sleep"
              /\ result'[s] = "pending"
              /\ retries'[s] = retries[s] + 1
              /\ delays'[s] = delays[s] + 1

\* An exchange that completed without transport error with a status in
\* [200, 300).
SuccessfulExchange(s) ==
    /\ request.made[s].o.fault = "none"
    /\ request.made[s].o.elapsed < request.Timeout
    /\ request.made[s].o.status >= 200
    /\ request.made[s].o.status < 300

\* C21: an exchange is handed to the handler, once, if and only if it
\* completed without transport error with a status in [200, 300); any other
\* one goes through the retry policy without the handler being invoked, and
\* the handler is invoked at no other moment.
C21_SuccessClassification ==
    [][\A s \in Sessions :
          /\ Received(s) =>
                IF SuccessfulExchange(s)
                  THEN /\ pc'[s] = "handler"
                       /\ handlerCalls'[s] = handlerCalls[s] + 1
                       /\ retries'[s] = 0
                  ELSE OrdinaryFailure(s)
          /\ handlerCalls'[s] # handlerCalls[s] => Received(s)]_vars

C21_Witness ==
    /\ request.made[1].n = 2
    /\ request.made[1].o.status = 300
    /\ request.made[1].o.fault = "none"
    /\ request.made[1].ret.kind = "status"
    /\ pc[1] = "sleep"
    /\ handlerCalls[1] = 1

\* The endpoint answered the last call of makeRequest of session s after at
\* least limit seconds.
AnsweredAfter(s, limit) ==
    /\ request.made[s].o.fault = "none"
    /\ request.made[s].o.elapsed >= limit

C23_BodyBuilderPerAttempt ==
    /\ [](\A s \in Sessions :
            /\ request.made[s].builds = (IF request.BodyBuilder THEN request.made[s].n ELSE 0)
            /\ request.made[s].n \in {attempts[s], attempts[s] - 1}
            /\ request.made[s].sends <= request.made[s].n)
    /\ [][\A s \in Sessions :
            /\ (request'.made[s].n # request.made[s].n /\ request'.made[s].o.fault = "body") =>
                  /\ request'.made[s].sends = request.made[s].sends
                  /\ request'.made[s].ret.err
            /\ (request'.made[s].n # request.made[s].n /\ request'.made[s].o.fault = "net") =>
                  request'.made[s].sends = request.made[s].sends + 1
            /\ (Received(s) /\ request.made[s].o.fault \in {"body", "net"}) =>
                  OrdinaryFailure(s)]_vars

C23_Witness ==
    /\ request.BodyBuilder
    /\ request.made[1].o.fault = "body"
    /\ request.made[1].n = 2
    /\ request.made[1].builds = 2
    /\ request.made[1].sends = 1
    /\ result[1] = "maxRetries"

\* C30: with Config.MaxRetries = N >= 1 the retries counter of a session is
\* always within 0..N; it grows, by one, only when a failed attempt leads to
\* the retry delay, and it is set back, to 0, only when an attempt succeeded
\* and the handler is about to be invoked.
C30_RetriesWithinBudget ==
    /\ [](\A s \in Sessions :
            MaxRetriesInput >= 1 => (retries[s] >= 0 /\ retries[s] <= MaxRetriesInput))
    /\ [][\A s \in Sessions :
            /\ retries'[s] > retries[s] =>
                  /\ retries'[s] = retries[s] + 1
                  /\ pc[s] = "request" /\ pc'[s] = "sleep"
                  /\ failures'[s] = failures[s] + 1
                  /\ result'[s] = "pending"
            /\ retries'[s] < retries[s] =>
                  /\ retries'[s] = 0
                  /\ pc[s] = "request" /\ pc'[s] = "handler"
                  /\ handlerCalls'[s] = handlerCalls[s] + 1]_vars

C30_Witness ==
    /\ MaxRetriesInput = MaxN
    /\ retries[1] = MaxN
    /\ pc[1] = "sleep"
    /\ handlerCalls[1] = 1
    /\ attempts[1] = MaxN + 1

\* Session s takes a step of its own or its caller's context is cancelled.
Moves(s) == pc'[s] # pc[s] \/ done'[s] # done[s] \/ timerFired'[s] # timerFired[s]

\* C28: a step of one session (its context being cancelled, its return from
\* Poll for whatever reason, or any other step of it) leaves every other
\* session as it is: not cancelled, at the same place with the same address,
\* retries counter and result, registered if it was; and the session that
\* returns is the only one removed from the registry.
C28_SessionsIndependent ==
    [][\A s \in Sessions :
          Moves(s) =>
             /\ \A t \in Sessions \ {s} :
                   /\ done'[t] = done[t]
                   /\ pc'[t] = pc[t]
                   /\ currentURL'[t] = currentURL[t]
                   /\ retries'[t] = retries[t]
                   /\ result'[t] = result[t]
                   /\ (t \in active') = (t \in active)
             /\ pc'[s] = "returned" => active' = active \ {s}]_vars

C28_Witness ==
    /\ pc[1] = "returned"
    /\ firedAt[1].by = "ctx"
    /\ result[1] = "ctxErr"
    /\ 2 \in active
    /\ ~done[2]
    /\ pc[2] = "sleep"
    /\ retries[2] = 1
    /\ currentURL[2] = "u1"

\* C29: StopAll fires the signal of no session that is not registered when it
\* runs: the signal of a session is fired only by its caller's context, by a
\* StopAll that finds the session registered, or by the session's own return
\* from Poll; so a session whose Poll is called after a StopAll has cancelled
\* another one runs until the handler stops it, its retries run out or a
\* later StopAll finds it registered.
C29_StopAllIsNotShutdown ==
    /\ [][StopAll => \A s \in Sessions \ active : done'[s] = done[s]]_vars
    /\ [][\A s \in Sessions :
            (done'[s] /\ ~done[s]) =>
                \/ firedAt'[s].by = "ctx" /\ firedAt[s].by = "none"
                \/ s \in active /\ pc'[s] = pc[s] /\ firedAt'[s].by = "StopAll"
                \/ pc'[s] = "returned" /\ pc[s] = "deregister"]_vars
    /\ [](\A s \in Sessions :
            (firedAt[s].by = "none" /\ pc[s] # "returned") => ~done[s])

C29_Witness ==
    /\ firedAt[FirstCaller].by = "StopAll"
    /\ pc[FirstCaller] = "returned"
    /\ firedAt[LaterCaller].by = "none"
    /\ ~done[LaterCaller]
    /\ handlerCalls[LaterCaller] = 2
    /\ result[LaterCaller] = "nil"
    /\ pc[LaterCaller] = "deregister"

\* C24: under fair scheduling, with a transport that completes or aborts the
\* exchange in flight and a handler that returns, a session whose Poll has
\* been called and whose cancellation signal has fired (by its caller's
\* context or by StopAll) eventually has returned from Poll and is out of the
\* registry.
C24_CancelledSessionReturns ==
    \A s \in Sessions :
        (done[s] /\ pc[s] # "idle") ~> (pc[s] = "returned" /\ s \notin active)

C24_Witness ==
    /\ firedAt[1].by = "StopAll"
    /\ aborted[1]
    /\ pc[1] = "returned"
    /\ result[1] = "ctxErr"
    /\ 1 \notin active

\* Goroutine g is in an access to a shared field of the client.
Accessing(g) == locking.at[g].phase = "in" /\ locking.at[g].op \in Ops

\* Two goroutines are in accesses to the same one of the given fields, one of
\* them writing it.
Overlap(fields) ==
    \E g \in Goroutines, h \in Goroutines :
        /\ g # h
        /\ Accessing(g) /\ Accessing(h)
        /\ FieldOf(locking.at[g].op) \in fields
        /\ FieldOf(locking.at[g].op) = FieldOf(locking.at[h].op)
        /\ Writes(locking.at[g].op)

\* StopAll returns in this step.
StopAllReturns == Accessing("stopAll") /\ locking'.at["stopAll"] = Rest("idle")

\* C25: StopAll calls cancel for every session registered when it holds
\* c.mu, changes neither the registry nor any other session, and is never
\* held up by a session: once it holds c.mu it can return, whatever the
\* sessions are doing, and whenever goroutines wait for c.mu its holder can
\* release it or one of them can take it; a StopAll that finds every
\* registered session cancelled, or none registered, changes nothing.
C25_StopAllCancelsRegistered ==
    /\ [][StopAllReturns =>
            /\ locking'.cancelled = locking.cancelled \cup locking.active
            /\ locking'.active = locking.active
            /\ \A g \in Pollers : locking'.at[g] = locking.at[g]
            /\ locking.active \subseteq locking.cancelled =>
                  locking'.cancelled = locking.cancelled]_vars
    /\ [](Accessing("stopAll") => ENABLED LockFinish("stopAll", Rest("idle")))
    /\ [](\A g \in Goroutines :
            locking.at[g].phase = "wait" =>
                \/ ENABLED LockAcquire(g)
                \/ \E h \in Goroutines \ {g} :
                      /\ h = locking.w \/ h \in locking.r
                      /\ \E next \in After(h, locking.at[h].op) : ENABLED LockFinish(h, next)
                \/ \E h \in locking.waiting \ {g} : ENABLED LockAcquire(h))

C25_Witness ==
    /\ locking.at["stopAll"] = Rest("idle")
    /\ locking.active = Pollers
    /\ locking.cancelled = Pollers
    /\ locking.at["poll1"] = Rest("do")
    /\ locking.at["poll2"] = [op |-> "headers", phase |-> "in"]

\* C26: no access to c.active overlaps a write of it: registration,
\* deregistration, the iteration of StopAll and the read of ActiveCount are
\* made under c.mu, the writer alone, readers only with readers.
C26_RegistryExclusive ==
    /\ ~Overlap({"active"})
    /\ locking.w # "" => locking.r = {}
    /\ \A g \in Goroutines :
          (Accessing(g) /\ FieldOf(locking.at[g].op) = "active") =>
              IF locking.at[g].op = "ActiveCount" THEN g \in locking.r ELSE g = locking.w

C26_Witness ==
    /\ locking.at["poll1"] = [op |-> "register", phase |-> "in"]
    /\ locking.at["poll2"] = [op |-> "deregister", phase |-> "wait"]
    /\ locking.at["stopAll"] = [op |-> "StopAll", phase |-> "wait"]
    /\ locking.at["activeCount"] = [op |-> "ActiveCount", phase |-> "wait"]

\* C27: no read of the header set, the HTTP method, the body builder or the
\* logger made by an attempt overlaps a write made by a With method.
C27_ConfigAccessExclusive ==
    ~Overlap({"headers", "logger", "config.Method", "config.BodyBuilder"})

====
